---- MODULE Spec2Model ----
(***************************************************************************)
(* Model of the frost-snake transaction engine: the Ledger of              *)
(* crates/lib/src/ledger.rs routing transactions to the per-client account *)
(* operations of crates/lib/src/client.rs.                                 *)
(*                                                                         *)
(* Currency is a fixed-point number; only its checked integer arithmetic   *)
(* matters here, so a currency value is modelled by its raw integer, with  *)
(* the 64-bit width of the source scaled down to CurrencyBits bits so that *)
(* overflow and underflow are reachable.                                   *)
(*                                                                         *)
(* The Ledger keeps the deposit table of a client next to its account      *)
(* (ClientAccountAndDeposits) and hands the looked-up (amount, state) to   *)
(* the account operation; the account operations are those of the          *)
(* TransactionExecutor impls of client.rs, whose deposit lookup            *)
(* (get_deposit) is served by that table.                                  *)
(***************************************************************************)
EXTENDS Integers, FiniteSets, Sequences, TLC

\* ---------------------------------------------------------------- bounds
MaxClient == 2
MaxTx == 2
CurrencyBits == 3
MaxSteps == 4

ClientIds == 1..MaxClient
TxIds == 1..MaxTx

\* ------------------------------------------------------------- currency
\* ICurrency = FixedI64, UCurrency = FixedU64 (lib.rs), scaled to CurrencyBits
IMax == 2^(CurrencyBits - 1) - 1
IMin == -(2^(CurrencyBits - 1))
UMax == 2^CurrencyBits - 1

\* amounts a Deposit or Withdrawal of the input stream may carry
Amounts == {0, 1, IMax, UMax}

NoValue == [some |-> FALSE]
Some(v) == [some |-> TRUE, v |-> v]

\* UCurrency::checked_as::<ICurrency>()
checked_as_ICurrency(u) == IF u <= IMax THEN Some(u) ELSE NoValue

\* ICurrency::checked_add / checked_sub
i_checked_add(a, b) == IF a + b <= IMax /\ a + b >= IMin THEN Some(a + b) ELSE NoValue
i_checked_sub(a, b) == IF a - b <= IMax /\ a - b >= IMin THEN Some(a - b) ELSE NoValue

\* ICurrency::checked_add_unsigned
i_checked_add_unsigned(a, u) == IF a + u <= IMax THEN Some(a + u) ELSE NoValue

\* UCurrency::checked_add / checked_sub
u_checked_add(a, b) == IF a + b <= UMax THEN Some(a + b) ELSE NoValue
u_checked_sub(a, b) == IF a - b >= 0 THEN Some(a - b) ELSE NoValue

\* ---------------------------------------------------------------- errors
InsufficientFunds == [kind |-> "InsufficientFunds"]
Overflow == [kind |-> "Overflow"]
Underflow == [kind |-> "Underflow"]
DepositNotFound(tx) == [kind |-> "DepositNotFound", tx |-> tx]
DuplicateDeposit(tx) == [kind |-> "DuplicateDeposit", tx |-> tx]
InvalidDepositState(tx, expected, actual) ==
  [kind |-> "InvalidDepositState", tx |-> tx,
   expected_state |-> expected, actual_state |-> actual]

Err(e) == [ok |-> FALSE, err |-> e]
OkResult == [ok |-> TRUE]

\* a failed assertion: the call does not return, the thread panics
Panic == [ok |-> FALSE, panic |-> TRUE]
IsPanic(res) == "panic" \in DOMAIN res

\* ---------------------------------------------------------- transactions
new_deposit(tx, client, amount) ==
  [kind |-> "Deposit", tx |-> tx, client |-> client, amount |-> amount]
new_withdrawal(tx, client, amount) ==
  [kind |-> "Withdrawal", tx |-> tx, client |-> client, amount |-> amount]
new_dispute(tx, client) == [kind |-> "Dispute", tx |-> tx, client |-> client]
new_resolve(tx, client) == [kind |-> "Resolve", tx |-> tx, client |-> client]
new_charge_back(tx, client) == [kind |-> "ChargeBack", tx |-> tx, client |-> client]

get_client_id(t) == t.client

\* ------------------------------------------------------- client account
\* assert_eq!(self.id, transaction.client), the first statement of each of
\* the five account operations
assert_eq_id(self, transaction) == self.id = transaction.client

ClientAccount_new(id) == [id |-> id, locked |-> FALSE, available |-> 0, held |-> 0]

\* variant of total: the sum wraps around instead of being checked
total_wrapping(self) ==
  LET sum == self.available + self.held IN
  Some(IF sum > IMax THEN sum - 2^CurrencyBits ELSE sum)

\* ClientAccount::total: the checked sum of available and held; the unwrap
\* of no value is a panic
total(self) == i_checked_add_unsigned(self.available, self.held)

\* variant of deposit: the account is rebuilt from its id and balances, so
\* the locked flag falls back to its default
deposit_unlocks(self, d) ==
  LET amount == checked_as_ICurrency(d.amount) IN
  IF ~amount.some THEN Err(Overflow)
  ELSE LET avail == i_checked_add(self.available, amount.v) IN
       IF ~avail.some THEN Err(Overflow)
       ELSE [ok |-> TRUE,
             account |-> [id |-> self.id, locked |-> FALSE,
                          available |-> avail.v, held |-> self.held]]

\* variant of deposit: a locked account takes no deposit
deposit_rejects_locked(self, d) ==
  LET amount == checked_as_ICurrency(d.amount) IN
  IF self.locked THEN Err([kind |-> "AccountLocked"])
  ELSE IF ~amount.some THEN Err(Overflow)
  ELSE LET avail == i_checked_add(self.available, amount.v) IN
       IF ~avail.some THEN Err(Overflow)
       ELSE [ok |-> TRUE, account |-> [self EXCEPT !.available = avail.v]]

\* variant of deposit: the sum is not checked but wraps around the signed
\* range
deposit_wrapping(self, d) ==
  [ok |-> TRUE,
   account |-> [self EXCEPT !.available =
                  ((self.available + d.amount - IMin) % (2^CurrencyBits)) + IMin]]

\* impl TransactionExecutor<Deposit> for ClientAccount
deposit(self, d) ==
  IF ~assert_eq_id(self, d) THEN Panic ELSE
  LET amount == checked_as_ICurrency(d.amount) IN
  IF ~amount.some THEN Err(Overflow)
  ELSE LET avail == i_checked_add(self.available, amount.v) IN
       IF ~avail.some THEN Err(Overflow)
       ELSE [ok |-> TRUE, account |-> [self EXCEPT !.available = avail.v]]

\* variant of withdraw: available is not compared with the amount, only the
\* checked subtraction guards the withdrawal
withdraw_no_funds_check(self, w) ==
  LET amount == checked_as_ICurrency(w.amount) IN
  IF ~amount.some THEN Err(Overflow)
  ELSE LET avail == i_checked_sub(self.available, amount.v) IN
       IF ~avail.some THEN Err(Underflow)
       ELSE [ok |-> TRUE, account |-> [self EXCEPT !.available = avail.v]]

\* variant of withdraw: the checked subtraction is done first and the funds
\* check is a test of its result for a negative balance
withdraw_sub_first(self, w) ==
  LET amount == checked_as_ICurrency(w.amount) IN
  IF ~amount.some THEN Err(Overflow)
  ELSE LET avail == i_checked_sub(self.available, amount.v) IN
       IF ~avail.some THEN Err(Underflow)
       ELSE IF avail.v < 0 THEN Err(InsufficientFunds)
       ELSE [ok |-> TRUE, account |-> [self EXCEPT !.available = avail.v]]

\* impl TransactionExecutor<Withdrawal> for ClientAccount
withdraw(self, w) ==
  IF ~assert_eq_id(self, w) THEN Panic ELSE
  LET amount == checked_as_ICurrency(w.amount) IN
  IF ~amount.some THEN Err(Overflow)
  ELSE IF self.available < amount.v THEN Err(InsufficientFunds)
  ELSE LET avail == i_checked_sub(self.available, amount.v) IN
       IF ~avail.some THEN Err(Underflow)
       ELSE [ok |-> TRUE, account |-> [self EXCEPT !.available = avail.v]]

\* get_deposit_with_state: the state check on the looked-up deposit
get_deposit_with_state(tx, state, expected_state) ==
  IF state # expected_state
  THEN Err(InvalidDepositState(tx, expected_state, state))
  ELSE OkResult

\* variant of dispute: the deposit is fetched without the check of its state
dispute_unchecked(self, d, dep_amount, state) ==
  LET amount == checked_as_ICurrency(dep_amount) IN
  IF ~amount.some THEN Err(Overflow)
  ELSE LET avail == i_checked_sub(self.available, amount.v) IN
  IF ~avail.some THEN Err(Underflow)
  ELSE LET held == u_checked_add(self.held, dep_amount) IN
  IF ~held.some THEN Err(Overflow)
  ELSE [ok |-> TRUE,
        account |-> [self EXCEPT !.available = avail.v, !.held = held.v],
        state |-> "Disputed"]

\* variant of dispute: a deposit is disputed only when available covers it
dispute_requires_funds(self, d, dep_amount, state) ==
  LET chk == get_deposit_with_state(d.tx, state, "Ok") IN
  IF ~chk.ok THEN chk
  ELSE LET amount == checked_as_ICurrency(dep_amount) IN
  IF ~amount.some THEN Err(Overflow)
  ELSE IF self.available < amount.v THEN Err(InsufficientFunds)
  ELSE LET avail == i_checked_sub(self.available, amount.v) IN
  IF ~avail.some THEN Err(Underflow)
  ELSE LET held == u_checked_add(self.held, dep_amount) IN
  IF ~held.some THEN Err(Overflow)
  ELSE [ok |-> TRUE,
        account |-> [self EXCEPT !.available = avail.v, !.held = held.v],
        state |-> "Disputed"]

\* variant of dispute: the amount leaves available but is not added to held
dispute_no_hold(self, d, dep_amount, state) ==
  LET chk == get_deposit_with_state(d.tx, state, "Ok") IN
  IF ~chk.ok THEN chk
  ELSE LET amount == checked_as_ICurrency(dep_amount) IN
  IF ~amount.some THEN Err(Overflow)
  ELSE LET avail == i_checked_sub(self.available, amount.v) IN
  IF ~avail.some THEN Err(Underflow)
  ELSE [ok |-> TRUE,
        account |-> [self EXCEPT !.available = avail.v],
        state |-> "Disputed"]

\* variant of dispute: a locked account refuses the dispute
dispute_rejects_locked(self, d, dep_amount, state) ==
  LET chk == get_deposit_with_state(d.tx, state, "Ok") IN
  IF self.locked THEN Err(InsufficientFunds)
  ELSE IF ~chk.ok THEN chk
  ELSE LET amount == checked_as_ICurrency(dep_amount) IN
  IF ~amount.some THEN Err(Overflow)
  ELSE LET avail == i_checked_sub(self.available, amount.v) IN
  IF ~avail.some THEN Err(Underflow)
  ELSE LET held == u_checked_add(self.held, dep_amount) IN
  IF ~held.some THEN Err(Overflow)
  ELSE [ok |-> TRUE,
        account |-> [self EXCEPT !.available = avail.v, !.held = held.v],
        state |-> "Disputed"]

\* impl TransactionExecutor<Dispute> for ClientAccount
dispute(self, d, dep_amount, state) ==
  IF ~assert_eq_id(self, d) THEN Panic ELSE
  LET chk == get_deposit_with_state(d.tx, state, "Ok") IN
  IF ~chk.ok THEN chk
  ELSE LET amount == checked_as_ICurrency(dep_amount) IN
  IF ~amount.some THEN Err(Overflow)
  ELSE LET avail == i_checked_sub(self.available, amount.v) IN
  IF ~avail.some THEN Err(Underflow)
  ELSE LET held == u_checked_add(self.held, dep_amount) IN
  IF ~held.some THEN Err(Overflow)
  ELSE [ok |-> TRUE,
        account |-> [self EXCEPT !.available = avail.v, !.held = held.v],
        state |-> "Disputed"]

\* variant of resolve: the deposit is fetched without the check of its state
resolve_unchecked(self, r, dep_amount, state) ==
  LET amount == checked_as_ICurrency(dep_amount) IN
  IF ~amount.some THEN Err(Overflow)
  ELSE LET avail == i_checked_add(self.available, amount.v) IN
  IF ~avail.some THEN Err(Overflow)
  ELSE LET held == u_checked_sub(self.held, dep_amount) IN
  IF ~held.some THEN Err(Underflow)
  ELSE [ok |-> TRUE,
        account |-> [self EXCEPT !.available = avail.v, !.held = held.v],
        state |-> "Ok"]

\* variant of resolve: the amount returns to available but stays in held
resolve_keeps_held(self, r, dep_amount, state) ==
  LET chk == get_deposit_with_state(r.tx, state, "Disputed") IN
  IF ~chk.ok THEN chk
  ELSE LET amount == checked_as_ICurrency(dep_amount) IN
  IF ~amount.some THEN Err(Overflow)
  ELSE LET avail == i_checked_add(self.available, amount.v) IN
  IF ~avail.some THEN Err(Overflow)
  ELSE [ok |-> TRUE,
        account |-> [self EXCEPT !.available = avail.v],
        state |-> "Ok"]

\* impl TransactionExecutor<Resolve> for ClientAccount
resolve(self, r, dep_amount, state) ==
  IF ~assert_eq_id(self, r) THEN Panic ELSE
  LET chk == get_deposit_with_state(r.tx, state, "Disputed") IN
  IF ~chk.ok THEN chk
  ELSE LET amount == checked_as_ICurrency(dep_amount) IN
  IF ~amount.some THEN Err(Overflow)
  ELSE LET avail == i_checked_add(self.available, amount.v) IN
  IF ~avail.some THEN Err(Overflow)
  ELSE LET held == u_checked_sub(self.held, dep_amount) IN
  IF ~held.some THEN Err(Underflow)
  ELSE [ok |-> TRUE,
        account |-> [self EXCEPT !.available = avail.v, !.held = held.v],
        state |-> "Ok"]

\* variant of charge_back: the account is locked but the deposit keeps its
\* state
charge_back_keeps_state(self, c, dep_amount, state) ==
  LET held == u_checked_sub(self.held, dep_amount) IN
  IF ~held.some THEN Err(Underflow)
  ELSE [ok |-> TRUE,
        account |-> [self EXCEPT !.held = held.v, !.locked = TRUE],
        state |-> state]

\* variant of charge_back: the account is not locked
charge_back_no_lock(self, c, dep_amount, state) ==
  LET held == u_checked_sub(self.held, dep_amount) IN
  IF ~held.some THEN Err(Underflow)
  ELSE [ok |-> TRUE,
        account |-> [self EXCEPT !.held = held.v],
        state |-> "ChargedBack"]

\* impl TransactionExecutor<ChargeBack> for ClientAccount: the deposit is
\* fetched with get_deposit, so its state is not checked
charge_back(self, c, dep_amount, state) ==
  IF ~assert_eq_id(self, c) THEN Panic ELSE
  LET held == u_checked_sub(self.held, dep_amount) IN
  IF ~held.some THEN Err(Underflow)
  ELSE [ok |-> TRUE,
        account |-> [self EXCEPT !.held = held.v, !.locked = TRUE],
        state |-> "ChargedBack"]

\* ---------------------------------------------------------------- ledger
NoDeposits == [x \in {} |-> [amount |-> 0, state |-> "Ok"]]

\* variant of ClientAccountAndDeposits::new: the account is the default
\* account, whose id is not the client's
ClientAccountAndDeposits_new_default_account(client) ==
  [account |-> ClientAccount_new(0), deposits |-> NoDeposits]

ClientAccountAndDeposits_new(client) ==
  [account |-> ClientAccount_new(client), deposits |-> NoDeposits]

\* HashMap::insert of one key
MapInsert(m, k, v) == [x \in DOMAIN m \cup {k} |-> IF x = k THEN v ELSE m[x]]

\* self.clients.entry(client_id).or_insert_with(..)
or_insert_with(cl, client_id) ==
  IF client_id \in DOMAIN cl THEN cl
  ELSE MapInsert(cl, client_id, ClientAccountAndDeposits_new(client_id))

\* Ledger::iter: the accounts of the clients map
iter(cl) == {cl[c].account : c \in DOMAIN cl}

get_deposit_and_state_mut(deposits, tx) ==
  IF tx \in DOMAIN deposits
  THEN [ok |-> TRUE, amount |-> deposits[tx].amount, state |-> deposits[tx].state]
  ELSE Err(DepositNotFound(tx))

\* the account operation a Dispute, ChargeBack or Resolve arm calls
AccountOp(account, t, amount, state) ==
  CASE t.kind = "Dispute" -> dispute(account, t, amount, state)
    [] t.kind = "ChargeBack" -> charge_back(account, t, amount, state)
    [] t.kind = "Resolve" -> resolve(account, t, amount, state)

\* what Ledger::execute leaves behind: the clients map and the returned result
Failed(cl, e) == [clients |-> cl, res |-> e]
Committed(cl) == [clients |-> cl, res |-> OkResult]

\* variant of execute_deposit: the deposit record is inserted before the
\* account operation is tried, so a failing deposit leaves its record behind
execute_deposit_insert_first(cl, client_id, d) ==
  LET account == cl[client_id].account
      deposits == cl[client_id].deposits
      inserted == [cl EXCEPT ![client_id].deposits =
                     MapInsert(deposits, d.tx, [amount |-> d.amount, state |-> "Ok"])]
  IN
  IF d.tx \in DOMAIN deposits THEN Failed(cl, Err(DuplicateDeposit(d.tx)))
  ELSE LET r == deposit(account, d) IN
       IF ~r.ok THEN Failed(inserted, r)
       ELSE Committed([inserted EXCEPT ![client_id].account = r.account])

\* variant of execute_deposit: an occupied entry is not rejected but
\* overwritten
execute_deposit_overwrite(cl, client_id, d) ==
  LET r == deposit(cl[client_id].account, d) IN
  IF ~r.ok THEN Failed(cl, r)
  ELSE Committed([cl EXCEPT ![client_id] =
         [account |-> r.account,
          deposits |-> MapInsert(cl[client_id].deposits, d.tx,
                                 [amount |-> d.amount, state |-> "Ok"])]])

\* Transaction::Deposit arm of Ledger::execute
execute_deposit(cl, client_id, d) ==
  LET account == cl[client_id].account
      deposits == cl[client_id].deposits
  IN
  IF d.tx \in DOMAIN deposits THEN Failed(cl, Err(DuplicateDeposit(d.tx)))
  ELSE LET r == deposit(account, d) IN
       IF ~r.ok THEN Failed(cl, r)
       ELSE Committed([cl EXCEPT ![client_id] =
              [account |-> r.account,
               deposits |-> MapInsert(deposits, d.tx,
                                      [amount |-> d.amount, state |-> "Ok"])]])

\* variant of execute_withdrawal: the tx id of a withdrawal must be unused in
\* the deposit table
execute_withdrawal_unique_tx(cl, client_id, w) ==
  IF w.tx \in DOMAIN cl[client_id].deposits
  THEN Failed(cl, Err(DuplicateDeposit(w.tx)))
  ELSE LET r == withdraw(cl[client_id].account, w) IN
       IF ~r.ok THEN Failed(cl, r)
       ELSE Committed([cl EXCEPT ![client_id].account = r.account])

\* Transaction::Withdrawal arm of Ledger::execute
execute_withdrawal(cl, client_id, w) ==
  LET r == withdraw(cl[client_id].account, w) IN
  IF ~r.ok THEN Failed(cl, r)
  ELSE Committed([cl EXCEPT ![client_id].account = r.account])

\* variant of execute_on_deposit: a tx id missing from the table is noted
\* in it as a pending dispute, to be matched with its deposit later
execute_on_deposit_remember_missing(cl, client_id, t) ==
  LET g == get_deposit_and_state_mut(cl[client_id].deposits, t.tx) IN
  IF ~g.ok
  THEN Failed([cl EXCEPT ![client_id].deposits =
                 MapInsert(cl[client_id].deposits, t.tx,
                           [amount |-> 0, state |-> "Disputed"])], g)
  ELSE LET r == AccountOp(cl[client_id].account, t, g.amount, g.state) IN
       IF ~r.ok THEN Failed(cl, r)
       ELSE Committed([cl EXCEPT ![client_id].account = r.account,
                                 ![client_id].deposits[t.tx].state = r.state])

\* variant of execute_on_deposit: the record of a charged back deposit is
\* removed from the table
execute_on_deposit_drop_charged_back(cl, client_id, t) ==
  LET g == get_deposit_and_state_mut(cl[client_id].deposits, t.tx) IN
  IF ~g.ok THEN Failed(cl, g)
  ELSE LET r == AccountOp(cl[client_id].account, t, g.amount, g.state) IN
       IF ~r.ok THEN Failed(cl, r)
       ELSE IF r.state = "ChargedBack"
       THEN Committed([cl EXCEPT ![client_id] =
              [account |-> r.account,
               deposits |-> [x \in DOMAIN cl[client_id].deposits \ {t.tx} |->
                               cl[client_id].deposits[x]]]])
       ELSE Committed([cl EXCEPT ![client_id].account = r.account,
                                 ![client_id].deposits[t.tx].state = r.state])

\* variant of execute_on_deposit: the new deposit state is written to the
\* record of that tx id of every client, as if tx ids were global
execute_on_deposit_global_tx(cl, client_id, t) ==
  LET g == get_deposit_and_state_mut(cl[client_id].deposits, t.tx) IN
  IF ~g.ok THEN Failed(cl, g)
  ELSE LET r == AccountOp(cl[client_id].account, t, g.amount, g.state) IN
       IF ~r.ok THEN Failed(cl, r)
       ELSE Committed(
              [c \in DOMAIN cl |->
                 [account |-> IF c = client_id THEN r.account ELSE cl[c].account,
                  deposits |-> [x \in DOMAIN cl[c].deposits |->
                                  IF x = t.tx
                                  THEN [cl[c].deposits[x] EXCEPT !.state = r.state]
                                  ELSE cl[c].deposits[x]]]])

\* variant of execute_on_deposit: a tx id missing from the table is skipped
\* without an error
execute_on_deposit_skip_missing(cl, client_id, t) ==
  LET g == get_deposit_and_state_mut(cl[client_id].deposits, t.tx) IN
  IF ~g.ok THEN Committed(cl)
  ELSE LET r == AccountOp(cl[client_id].account, t, g.amount, g.state) IN
       IF ~r.ok THEN Failed(cl, r)
       ELSE Committed([cl EXCEPT ![client_id].account = r.account,
                                 ![client_id].deposits[t.tx].state = r.state])

\* variant of execute_on_deposit: the new state of the deposit is written
\* before the account operation is tried, so a failing Dispute, Resolve or
\* ChargeBack leaves the record in its target state
execute_on_deposit_state_first(cl, client_id, t) ==
  LET g == get_deposit_and_state_mut(cl[client_id].deposits, t.tx)
      target == CASE t.kind = "Dispute" -> "Disputed"
                  [] t.kind = "ChargeBack" -> "ChargedBack"
                  [] t.kind = "Resolve" -> "Ok"
  IN
  IF ~g.ok THEN Failed(cl, g)
  ELSE LET r == AccountOp(cl[client_id].account, t, g.amount, g.state) IN
       IF ~r.ok
       THEN Failed([cl EXCEPT ![client_id].deposits[t.tx].state = target], r)
       ELSE Committed([cl EXCEPT ![client_id].account = r.account,
                                 ![client_id].deposits[t.tx].state = r.state])

\* Transaction::Dispute, ChargeBack and Resolve arms of Ledger::execute
execute_on_deposit(cl, client_id, t) ==
  LET g == get_deposit_and_state_mut(cl[client_id].deposits, t.tx) IN
  IF ~g.ok THEN Failed(cl, g)
  ELSE LET r == AccountOp(cl[client_id].account, t, g.amount, g.state) IN
       IF ~r.ok THEN Failed(cl, r)
       ELSE Committed([cl EXCEPT ![client_id].account = r.account,
                                 ![client_id].deposits[t.tx].state = r.state])

\* variant of execute: the account created for a new client is kept only
\* when the transaction succeeds
execute_create_on_success(cl, t) ==
  LET client_id == get_client_id(t)
      cl1 == or_insert_with(cl, client_id)
      r == CASE t.kind = "Deposit" -> execute_deposit(cl1, client_id, t)
             [] t.kind = "Withdrawal" -> execute_withdrawal(cl1, client_id, t)
             [] OTHER -> execute_on_deposit(cl1, client_id, t)
  IN IF r.res.ok THEN r ELSE Failed(cl, r.res)

\* Ledger::execute: the account of the transaction's client is looked up or
\* created first, then the transaction is dispatched on its kind
execute(cl, t) ==
  LET client_id == get_client_id(t)
      cl1 == or_insert_with(cl, client_id)
  IN
  CASE t.kind = "Deposit" -> execute_deposit(cl1, client_id, t)
    [] t.kind = "Withdrawal" -> execute_withdrawal(cl1, client_id, t)
    [] OTHER -> execute_on_deposit(cl1, client_id, t)

\* ----------------------------------------------------------------- state
\* clients: Ledger.clients of the ledger the replay loop owns
\* steps: number of ledger.execute calls made so far
\* driver: which driver runs, "lib" (lib.rs execute) or "cli" (cli main)
\* stream: the items the transaction iterator yields, in order; an item is a
\*         parsed transaction or ParseError
\* pos: number of items of the stream the loop has consumed
\* calls: the ledger.execute calls made so far, each with its transaction
\*        and whether it returned Ok
\* pc: where the driver is: "replay" in its loop, "written" after the
\*     snapshot, "panicked" after a panic, "aborted" after leaving the loop
\*     before the end of the stream
\* withdrawn: per client, the sum of the amounts of its accepted
\*            withdrawals, kept by the single-account specification
VARIABLES clients, steps, driver, stream, pos, calls, pc, withdrawn

vars == <<clients, steps, driver, stream, pos, calls, pc, withdrawn>>

driverVars == <<driver, stream, pos, calls, pc>>

\* Ledger::default()
Init ==
  /\ clients = [c \in {} |-> ClientAccountAndDeposits_new(c)]
  /\ steps = 0
  /\ driver = "lib"
  /\ stream = <<>>
  /\ pos = 0
  /\ calls = <<>>
  /\ pc = "replay"
  /\ withdrawn = [c \in ClientIds |-> 0]

\* the tx ids recorded in some deposit table
UsedTx == UNION {DOMAIN clients[c].deposits : c \in DOMAIN clients}

\* Client ids and tx ids are opaque map keys, so the streams are explored up
\* to a renaming of ids: the next unseen client id is the least one without
\* an account and the next unrecorded tx id is the least unrecorded one.
InOrder(c, tx) ==
  /\ c <= Cardinality(DOMAIN clients) + 1
  /\ tx <= Cardinality(UsedTx) + 1

ExecDeposit ==
  \E tx \in TxIds, c \in ClientIds, a \in Amounts :
    /\ steps < MaxSteps
    /\ InOrder(c, tx)
    /\ steps' = steps + 1
    /\ clients' = execute(clients, new_deposit(tx, c, a)).clients
    /\ UNCHANGED <<driverVars, withdrawn>>

ExecWithdrawal ==
  \E tx \in TxIds, c \in ClientIds, a \in Amounts :
    /\ steps < MaxSteps
    /\ InOrder(c, tx)
    /\ steps' = steps + 1
    /\ clients' = execute(clients, new_withdrawal(tx, c, a)).clients
    /\ UNCHANGED <<driverVars, withdrawn>>

ExecDispute ==
  \E tx \in TxIds, c \in ClientIds :
    /\ steps < MaxSteps
    /\ InOrder(c, tx)
    /\ steps' = steps + 1
    /\ clients' = execute(clients, new_dispute(tx, c)).clients
    /\ UNCHANGED <<driverVars, withdrawn>>

ExecResolve ==
  \E tx \in TxIds, c \in ClientIds :
    /\ steps < MaxSteps
    /\ InOrder(c, tx)
    /\ steps' = steps + 1
    /\ clients' = execute(clients, new_resolve(tx, c)).clients
    /\ UNCHANGED <<driverVars, withdrawn>>

ExecChargeBack ==
  \E tx \in TxIds, c \in ClientIds :
    /\ steps < MaxSteps
    /\ InOrder(c, tx)
    /\ steps' = steps + 1
    /\ clients' = execute(clients, new_charge_back(tx, c)).clients
    /\ UNCHANGED <<driverVars, withdrawn>>

Next == ExecDeposit \/ ExecWithdrawal \/ ExecDispute \/ ExecResolve \/ ExecChargeBack

Spec == Init /\ [][Next]_vars

TypeOK ==
  /\ DOMAIN clients \subseteq ClientIds
  /\ \A c \in DOMAIN clients :
       /\ clients[c].account.available \in IMin..IMax
       /\ clients[c].account.held \in 0..UMax
       /\ clients[c].account.locked \in BOOLEAN
       /\ DOMAIN clients[c].deposits \subseteq TxIds

\* ------------------------------------------------- one account, in depth
\* The transactions of a single client, with amounts 1 and IMax, executed to
\* a greater depth than in Spec, so that balances reach both ends of the
\* currency range; the accepted withdrawals are summed up on the way.
MaxAccountSteps == 6

AccountAmounts == {1, IMax}

AccountDeposit ==
  \E tx \in TxIds, a \in AccountAmounts :
    /\ steps < MaxAccountSteps
    /\ InOrder(1, tx)
    /\ steps' = steps + 1
    /\ clients' = execute(clients, new_deposit(tx, 1, a)).clients
    /\ UNCHANGED <<driverVars, withdrawn>>

AccountWithdrawal ==
  \E tx \in TxIds, a \in AccountAmounts :
    /\ steps < MaxAccountSteps
    /\ InOrder(1, tx)
    /\ steps' = steps + 1
    /\ LET r == execute(clients, new_withdrawal(tx, 1, a)) IN
       /\ clients' = r.clients
       /\ withdrawn' = IF r.res.ok THEN [withdrawn EXCEPT ![1] = @ + a]
                       ELSE withdrawn
    /\ UNCHANGED driverVars

AccountDispute ==
  \E tx \in TxIds :
    /\ steps < MaxAccountSteps
    /\ InOrder(1, tx)
    /\ steps' = steps + 1
    /\ clients' = execute(clients, new_dispute(tx, 1)).clients
    /\ UNCHANGED <<driverVars, withdrawn>>

AccountResolve ==
  \E tx \in TxIds :
    /\ steps < MaxAccountSteps
    /\ InOrder(1, tx)
    /\ steps' = steps + 1
    /\ clients' = execute(clients, new_resolve(tx, 1)).clients
    /\ UNCHANGED <<driverVars, withdrawn>>

AccountChargeBack ==
  \E tx \in TxIds :
    /\ steps < MaxAccountSteps
    /\ InOrder(1, tx)
    /\ steps' = steps + 1
    /\ clients' = execute(clients, new_charge_back(tx, 1)).clients
    /\ UNCHANGED <<driverVars, withdrawn>>

AccountNext ==
  AccountDeposit \/ AccountWithdrawal \/ AccountDispute \/ AccountResolve
    \/ AccountChargeBack

AccountSpec == Init /\ [][AccountNext]_vars

\* ---------------------------------------------------------- replay drivers
MaxStream == 3

\* an item of the iterator that is an Err(ParserError)
ParseError == [kind |-> "ParseError"]

\* Result::is_ok of an item of the iterator
is_ok(item) == item.kind # "ParseError"

\* Iterator::flatten over the Result items: the Ok values, in order
flatten(s) == SelectSeq(s, is_ok)

\* the items of the replayed streams: a record that does not parse, and
\* transactions that succeed or fail depending on what precedes them; the
\* deposits are all of client 1, so every transaction of another client
\* fails
StreamItems ==
  {ParseError}
    \cup {new_deposit(x, 1, IMax) : x \in TxIds}
    \cup {new_withdrawal(1, c, 1) : c \in ClientIds}
    \cup {new_dispute(x, 1) : x \in TxIds}
    \cup {new_resolve(x, 1) : x \in TxIds}
    \cup {new_charge_back(x, 1) : x \in TxIds}

Streams == UNION {[1..n -> StreamItems] : n \in 0..MaxStream}

\* variant of commit: both drivers keep the ledger of a call only on Ok
commit_on_ok_only(drv, cl, r) == IF r.res.ok THEN r.clients ELSE cl

\* how each driver keeps the ledger of a ledger.execute call: lib.rs executes
\* in place and drops the result, the cli executes a clone and keeps it only
\* on Ok
\* variant of commit: the cli executes on the clone and drops it, so its
\* ledger is never replaced
commit_clone_dropped(drv, cl, r) == IF drv = "lib" THEN r.clients ELSE cl

commit(drv, cl, r) ==
  IF drv = "lib" THEN r.clients
  ELSE IF r.res.ok THEN r.clients ELSE cl

\* variant of after_execute: the error of a call is propagated out of the
\* loop
after_execute_propagate(res) == IF res.ok THEN "replay" ELSE "aborted"

\* where the loop goes after a ledger.execute call: the result is dropped
\* (.ok() in lib.rs, a failed if-let in the cli) and the loop goes on
after_execute(res) == "replay"

\* write_csv calls total() on every account, the cli prints the ledger
\* without it
write_snapshot(drv, cl) ==
  IF drv = "lib" /\ \E c \in DOMAIN cl : ~total(cl[c].account).some
  THEN "panicked"
  ELSE "written"

ReplayInit ==
  /\ clients = [c \in {} |-> ClientAccountAndDeposits_new(c)]
  /\ steps = 0
  /\ driver \in {"lib", "cli"}
  /\ stream \in Streams
  /\ pos = 0
  /\ calls = <<>>
  /\ pc = "replay"
  /\ withdrawn = [c \in ClientIds |-> 0]

\* variant of ReplaySkip: the iterator yields the parse error again without
\* moving on, so the loop makes no progress past it
ReplaySkip_same_item_again ==
  /\ pc = "replay"
  /\ pos < Len(stream)
  /\ ~is_ok(stream[pos + 1])
  /\ pos' = pos
  /\ UNCHANGED <<clients, steps, driver, stream, calls, pc, withdrawn>>

\* the next item is an Err: flatten drops it, the cli continues
ReplaySkip ==
  /\ pc = "replay"
  /\ pos < Len(stream)
  /\ ~is_ok(stream[pos + 1])
  /\ pos' = pos + 1
  /\ UNCHANGED <<clients, steps, driver, stream, calls, pc, withdrawn>>

\* the next item is a transaction: it is passed to ledger.execute
ReplayExecute ==
  /\ pc = "replay"
  /\ pos < Len(stream)
  /\ is_ok(stream[pos + 1])
  /\ LET t == stream[pos + 1]
         r == execute(clients, t)
     IN /\ clients' = commit(driver, clients, r)
        /\ calls' = Append(calls, [transaction |-> t, ok |-> r.res.ok, res |-> r.res])
        /\ pc' = IF IsPanic(r.res) THEN "panicked" ELSE after_execute(r.res)
  /\ pos' = pos + 1
  /\ steps' = steps + 1
  /\ UNCHANGED <<driver, stream, withdrawn>>

\* the iterator is exhausted: the snapshot is written
ReplayEnd ==
  /\ pc = "replay"
  /\ pos = Len(stream)
  /\ pc' = write_snapshot(driver, clients)
  /\ UNCHANGED <<clients, steps, driver, stream, pos, calls, withdrawn>>

ReplayNext == ReplaySkip \/ ReplayExecute \/ ReplayEnd

\* the loop of a driver is sequential code: an enabled step is taken
ReplaySpec == ReplayInit /\ [][ReplayNext]_vars /\ WF_vars(ReplayNext)

\* ------------------------------------------------- vocabulary of the claims
\* every transaction the next Ledger::execute call may be given
Transactions ==
  {new_deposit(x, c, a) : x \in TxIds, c \in ClientIds, a \in Amounts}
    \cup {new_withdrawal(x, c, a) : x \in TxIds, c \in ClientIds, a \in Amounts}
    \cup {new_dispute(x, c) : x \in TxIds, c \in ClientIds}
    \cup {new_resolve(x, c) : x \in TxIds, c \in ClientIds}
    \cup {new_charge_back(x, c) : x \in TxIds, c \in ClientIds}

\* the ledger after, and the result of, ledger.execute(t) in the current state
After(t) == execute(clients, t).clients
Res(t) == execute(clients, t).res

HasDeposit(cl, c, x) == c \in DOMAIN cl /\ x \in DOMAIN cl[c].deposits
StateOf(cl, c, x) == cl[c].deposits[x].state
AmountOf(cl, c, x) == cl[c].deposits[x].amount

\* the account and deposit table a client has when first created
EmptyClient(c) ==
  [account |-> [id |-> c, locked |-> FALSE, available |-> 0, held |-> 0],
   deposits |-> NoDeposits]

\* cl with an empty account added for c when c has none
WithClient(cl, c) ==
  [x \in DOMAIN cl \cup {c} |-> IF x \in DOMAIN cl THEN cl[x] ELSE EmptyClient(c)]

OnDepositKinds == {"Dispute", "Resolve", "ChargeBack"}

\* ---------------------------------------------------------------- claims
\* C1 as stated: in every reachable Ledger state and for every transaction t,
\* if Ledger.execute(t) returns an error then the whole committed Ledger
\* state (the set of client ids and every client's account and deposit
\* table) is identical to the state before the call.
C1_Original ==
  \A t \in Transactions :
    LET r == execute(clients, t) IN ~r.res.ok => r.clients = clients

\* C1 (amended): in every reachable Ledger state and for every transaction t,
\* if Ledger.execute(t) returns an error then every client present before the
\* call keeps its available, held, locked and deposit table and no client is
\* removed; the only change is that an empty account (available 0, held 0,
\* unlocked, no deposits) has been added for t's client when that client was
\* not yet present.
C1_AtomicOnFailure ==
  \A t \in Transactions :
    LET r == execute(clients, t) IN
    ~r.res.ok => r.clients = WithClient(clients, t.client)

\* a Resolve of a Disputed deposit fails on held (Underflow), which is after
\* its update of available has succeeded
C1_Witness ==
  \E c \in DOMAIN clients : \E x \in DOMAIN clients[c].deposits :
    /\ StateOf(clients, c, x) = "Disputed"
    /\ clients[c].account.available + AmountOf(clients, c, x) <= IMax
    /\ Res(new_resolve(x, c)) = Err(Underflow)
    /\ After(new_resolve(x, c)) = clients

\* C2: in every reachable Ledger state, Ledger.execute(t) with client field
\* A, successful or failing, leaves the account and the deposit table of
\* every other client B unchanged, and neither adds nor removes a client
\* other than A.
C2_CrossClientIsolation ==
  \A t \in Transactions :
    LET after == After(t) IN
    /\ DOMAIN after \ {t.client} = DOMAIN clients \ {t.client}
    /\ \A b \in DOMAIN clients \ {t.client} : after[b] = clients[b]

\* two clients hold a deposit under the same tx id; the one of A is Disputed
\* and a ChargeBack of it succeeds, while the one of B is and stays Ok
C2_Witness ==
  \E a \in DOMAIN clients, b \in DOMAIN clients : \E x \in TxIds :
    /\ a # b
    /\ HasDeposit(clients, a, x) /\ HasDeposit(clients, b, x)
    /\ StateOf(clients, a, x) = "Disputed"
    /\ StateOf(clients, b, x) = "Ok"
    /\ Res(new_charge_back(x, a)).ok
    /\ StateOf(After(new_charge_back(x, a)), b, x) = "Ok"

\* C3 as stated: in every step the state of a recorded deposit changes only
\* by Ok -> Disputed (a successful Dispute of that tx), Disputed -> Ok (a
\* successful Resolve of that tx) or Disputed -> ChargedBack (a successful
\* ChargeBack of that tx).
C3_Original ==
  \A t \in Transactions :
    \A c \in DOMAIN clients : \A x \in DOMAIN clients[c].deposits :
      LET s == StateOf(clients, c, x)
          s2 == StateOf(After(t), c, x)
      IN s2 # s =>
           /\ Res(t).ok
           /\ \/ s = "Ok" /\ s2 = "Disputed" /\ t = new_dispute(x, c)
              \/ s = "Disputed" /\ s2 = "Ok" /\ t = new_resolve(x, c)
              \/ s = "Disputed" /\ s2 = "ChargedBack" /\ t = new_charge_back(x, c)

\* C4 as stated: a deposit in state ChargedBack stays ChargedBack whatever
\* transaction follows, and every later Dispute, Resolve or ChargeBack of it
\* fails with InvalidDepositState (expected Ok for a Dispute, Disputed for a
\* Resolve or ChargeBack, actual ChargedBack) and changes neither held nor
\* available.
C4_Original ==
  \A t \in Transactions :
    \A c \in DOMAIN clients : \A x \in DOMAIN clients[c].deposits :
      StateOf(clients, c, x) = "ChargedBack" =>
        /\ StateOf(After(t), c, x) = "ChargedBack"
        /\ (t.client = c /\ t.tx = x /\ t.kind \in OnDepositKinds) =>
             /\ Res(t) = Err(InvalidDepositState(x,
                               IF t.kind = "Dispute" THEN "Ok" ELSE "Disputed",
                               "ChargedBack"))
             /\ After(t)[c].account.held = clients[c].account.held
             /\ After(t)[c].account.available = clients[c].account.available

\* C5 as stated: a ChargeBack of a deposit whose state is Ok fails with
\* InvalidDepositState{expected: Disputed, actual: Ok}; the account is not
\* locked by it, held is not decreased and the deposit stays Ok.
C5_Original ==
  \A c \in DOMAIN clients : \A x \in DOMAIN clients[c].deposits :
    LET t == new_charge_back(x, c) IN
    StateOf(clients, c, x) = "Ok" =>
      /\ Res(t) = Err(InvalidDepositState(x, "Disputed", "Ok"))
      /\ After(t)[c].account.locked = clients[c].account.locked
      /\ After(t)[c].account.held >= clients[c].account.held
      /\ StateOf(After(t), c, x) = "Ok"

\* C6: a Resolve of a recorded deposit whose state is not Disputed fails with
\* InvalidDepositState{expected: Disputed, actual: the current state} and
\* leaves available, held, locked and the deposit's state unchanged.
C6_ResolveRequiresDisputed ==
  \A c \in DOMAIN clients : \A x \in DOMAIN clients[c].deposits :
    LET t == new_resolve(x, c) IN
    StateOf(clients, c, x) # "Disputed" =>
      /\ Res(t) = Err(InvalidDepositState(x, "Disputed", StateOf(clients, c, x)))
      /\ After(t)[c].account = clients[c].account
      /\ StateOf(After(t), c, x) = StateOf(clients, c, x)

\* a Resolve of an undisputed deposit of positive amount is rejected with
\* actual state Ok while the account holds enough for it to go through
C6_Witness ==
  \E c \in DOMAIN clients : \E x \in DOMAIN clients[c].deposits :
    /\ StateOf(clients, c, x) = "Ok"
    /\ AmountOf(clients, c, x) > 0
    /\ clients[c].account.held >= AmountOf(clients, c, x)
    /\ Res(new_resolve(x, c)) = Err(InvalidDepositState(x, "Disputed", "Ok"))

\* C7: a Dispute of a recorded deposit whose state is not Ok fails with
\* InvalidDepositState{expected: Ok, actual: the current state} and moves
\* nothing from available to held: the account and the deposit's state are
\* unchanged.
C7_DisputeRequiresOk ==
  \A c \in DOMAIN clients : \A x \in DOMAIN clients[c].deposits :
    LET t == new_dispute(x, c) IN
    StateOf(clients, c, x) # "Ok" =>
      /\ Res(t) = Err(InvalidDepositState(x, "Ok", StateOf(clients, c, x)))
      /\ After(t)[c].account = clients[c].account
      /\ StateOf(After(t), c, x) = StateOf(clients, c, x)

\* a second Dispute of an already Disputed deposit of positive amount is
\* rejected, the amount being held once
C7_Witness ==
  \E c \in DOMAIN clients : \E x \in DOMAIN clients[c].deposits :
    /\ StateOf(clients, c, x) = "Disputed"
    /\ AmountOf(clients, c, x) > 0
    /\ clients[c].account.held = AmountOf(clients, c, x)
    /\ Res(new_dispute(x, c)) = Err(InvalidDepositState(x, "Ok", "Disputed"))
    /\ After(new_dispute(x, c))[c].account.held = AmountOf(clients, c, x)

\* C8: a Deposit whose tx id is already in the deposit table of its client,
\* in any state, fails with DuplicateDeposit(tx) and mutates nothing.
C8_DuplicateDeposit ==
  \A c \in DOMAIN clients : \A x \in DOMAIN clients[c].deposits : \A a \in Amounts :
    LET r == execute(clients, new_deposit(x, c, a)) IN
    /\ r.res = Err(DuplicateDeposit(x))
    /\ r.clients = clients

\* a Deposit that reuses the tx id of a ChargedBack deposit, with an amount
\* the account could take, is rejected
C8_Witness ==
  \E c \in DOMAIN clients : \E x \in DOMAIN clients[c].deposits :
    /\ StateOf(clients, c, x) = "ChargedBack"
    /\ clients[c].account.available + 1 <= IMax
    /\ Res(new_deposit(x, c, 1)) = Err(DuplicateDeposit(x))
    /\ After(new_deposit(x, c, 1)) = clients

\* C9 as stated: a Dispute, Resolve or ChargeBack whose tx id is not in the
\* deposit table of its own client fails with DepositNotFound(tx) and changes
\* nothing.
C9_Original ==
  \A t \in Transactions :
    (t.kind \in OnDepositKinds /\ ~HasDeposit(clients, t.client, t.tx)) =>
      LET r == execute(clients, t) IN
      /\ r.res = Err(DepositNotFound(t.tx))
      /\ r.clients = clients

\* C9 (amended): a Dispute, Resolve or ChargeBack whose tx id is not in the
\* deposit table of its own client fails with DepositNotFound(tx) and changes
\* no existing account and no deposit table; its only effect is that an
\* empty account is added for its client when that client was not yet
\* present.
C9_DepositNotFound ==
  \A t \in Transactions :
    (t.kind \in OnDepositKinds /\ ~HasDeposit(clients, t.client, t.tx)) =>
      LET r == execute(clients, t) IN
      /\ r.res = Err(DepositNotFound(t.tx))
      /\ r.clients = WithClient(clients, t.client)

\* a client with a deposit of its own refers to a tx id that is a deposit of
\* a different client only, and is told DepositNotFound
C9_Witness ==
  \E c \in DOMAIN clients, b \in DOMAIN clients : \E x \in TxIds :
    /\ b # c
    /\ HasDeposit(clients, b, x)
    /\ ~HasDeposit(clients, c, x)
    /\ clients[c].deposits # NoDeposits
    /\ Res(new_dispute(x, c)) = Err(DepositNotFound(x))

\* C10 as stated: a Withdrawal against an account whose locked flag is true
\* fails with AccountLocked for every amount and leaves available unchanged.
C10_Original ==
  \A t \in Transactions :
    (t.kind = "Withdrawal" /\ t.client \in DOMAIN clients
       /\ clients[t.client].account.locked) =>
      /\ Res(t) = Err([kind |-> "AccountLocked"])
      /\ After(t)[t.client].account.available = clients[t.client].account.available

\* C11 as stated: a Withdrawal of an amount strictly greater than available
\* on an unlocked account fails with InsufficientFunds and leaves available,
\* held, locked and the deposit table unchanged; a Withdrawal of an amount
\* less than or equal to available succeeds and decreases available by
\* exactly the amount.
C11_Original ==
  \A c \in DOMAIN clients : \A x \in TxIds : \A a \in Amounts :
    LET r == execute(clients, new_withdrawal(x, c, a))
        acc == clients[c].account
    IN ~acc.locked =>
         IF a > acc.available
         THEN r.res = Err(InsufficientFunds) /\ r.clients = clients
         ELSE r.res.ok /\ r.clients[c].account.available = acc.available - a

\* C11 (amended): on an unlocked account a Withdrawal of an amount that does
\* not fit the signed currency type fails with Overflow, and one of an amount
\* that fits and is strictly greater than available fails with
\* InsufficientFunds; both leave available, held, locked and the deposit
\* table unchanged. A Withdrawal of an amount less than or equal to available
\* succeeds and decreases available by exactly the amount, leaving held,
\* locked and the deposit table as they were.
C11_WithdrawalFunds ==
  \A c \in DOMAIN clients : \A x \in TxIds : \A a \in Amounts :
    LET r == execute(clients, new_withdrawal(x, c, a))
        acc == clients[c].account
    IN ~acc.locked =>
         IF a > IMax
         THEN r.res = Err(Overflow) /\ r.clients = clients
         ELSE IF a > acc.available
         THEN r.res = Err(InsufficientFunds) /\ r.clients = clients
         ELSE /\ r.res.ok
              /\ r.clients = [clients EXCEPT ![c].account.available = acc.available - a]

\* an unlocked account with available 1 refuses a withdrawal of IMax for
\* lack of funds and one of UMax for overflow, and pays out a withdrawal of 1
C11_Witness ==
  \E c \in DOMAIN clients :
    /\ ~clients[c].account.locked
    /\ clients[c].account.available = 1
    /\ IMax > 1
    /\ Res(new_withdrawal(1, c, IMax)) = Err(InsufficientFunds)
    /\ Res(new_withdrawal(1, c, UMax)) = Err(Overflow)
    /\ Res(new_withdrawal(1, c, 1)).ok
    /\ After(new_withdrawal(1, c, 1))[c].account.available = 0

\* C12: for every reachable Ledger state and every deposit in state Ok, a
\* successful Dispute followed immediately by a Resolve of the same tx yields
\* a Ledger state equal to the state before the Dispute (the Resolve
\* succeeds); in particular deposit, dispute, resolve equals deposit alone.
C12_DisputeResolveRoundTrip ==
  \A c \in DOMAIN clients : \A x \in DOMAIN clients[c].deposits :
    LET r1 == execute(clients, new_dispute(x, c)) IN
    (StateOf(clients, c, x) = "Ok" /\ r1.res.ok) =>
      LET r2 == execute(r1.clients, new_resolve(x, c)) IN
      r2.res.ok /\ r2.clients = clients

\* the ledger after a single deposit of a positive amount: its dispute
\* succeeds and changes the ledger, and the resolve brings it back
C12_Witness ==
  \E c \in DOMAIN clients : \E x \in DOMAIN clients[c].deposits :
    /\ DOMAIN clients = {c}
    /\ DOMAIN clients[c].deposits = {x}
    /\ StateOf(clients, c, x) = "Ok"
    /\ AmountOf(clients, c, x) > 0
    /\ clients[c].account.available = AmountOf(clients, c, x)
    /\ Res(new_dispute(x, c)).ok
    /\ After(new_dispute(x, c)) # clients
    /\ execute(After(new_dispute(x, c)), new_resolve(x, c)).clients = clients

\* C13: a successful ChargeBack of a Disputed deposit of amount a decreases
\* held by exactly a, leaves available unchanged, sets locked to true and the
\* deposit's state to ChargedBack; deposit a, dispute, chargeback on a fresh
\* account ends with available 0, held 0, total 0 and locked true.
C13_ChargeBack ==
  \A c \in DOMAIN clients : \A x \in DOMAIN clients[c].deposits :
    LET r == execute(clients, new_charge_back(x, c))
        acc == clients[c].account
    IN (StateOf(clients, c, x) = "Disputed" /\ r.res.ok) =>
         /\ r.clients[c].account.held = acc.held - AmountOf(clients, c, x)
         /\ r.clients[c].account.available = acc.available
         /\ r.clients[c].account.locked
         /\ StateOf(r.clients, c, x) = "ChargedBack"
         /\ (acc.available = 0 /\ acc.held = AmountOf(clients, c, x)) =>
              /\ r.clients[c].account.available = 0
              /\ r.clients[c].account.held = 0
              /\ r.clients[c].account.available + r.clients[c].account.held = 0

\* the ledger after deposit a, dispute on a fresh account (a > 0): the
\* chargeback succeeds on the unlocked account and ends with 0, 0, locked
C13_Witness ==
  \E c \in DOMAIN clients : \E x \in DOMAIN clients[c].deposits :
    /\ DOMAIN clients[c].deposits = {x}
    /\ StateOf(clients, c, x) = "Disputed"
    /\ AmountOf(clients, c, x) > 0
    /\ clients[c].account =
         [id |-> c, locked |-> FALSE, available |-> 0, held |-> AmountOf(clients, c, x)]
    /\ Res(new_charge_back(x, c)).ok
    /\ After(new_charge_back(x, c))[c].account =
         [id |-> c, locked |-> TRUE, available |-> 0, held |-> 0]

\* C14: a successful Dispute of an Ok deposit of amount a decreases available
\* by a and increases held by a, so available + held is unchanged; locked is
\* unchanged, the deposit's state becomes Disputed and its recorded amount is
\* unchanged.
C14_Dispute ==
  \A c \in DOMAIN clients : \A x \in DOMAIN clients[c].deposits :
    LET r == execute(clients, new_dispute(x, c))
        acc == clients[c].account
        a == AmountOf(clients, c, x)
    IN (StateOf(clients, c, x) = "Ok" /\ r.res.ok) =>
         /\ r.clients[c].account.available = acc.available - a
         /\ r.clients[c].account.held = acc.held + a
         /\ r.clients[c].account.available + r.clients[c].account.held
              = acc.available + acc.held
         /\ r.clients[c].account.locked = acc.locked
         /\ StateOf(r.clients, c, x) = "Disputed"
         /\ AmountOf(r.clients, c, x) = a

\* a Dispute of an Ok deposit of positive amount succeeds on an account that
\* already holds another disputed amount
C14_Witness ==
  \E c \in DOMAIN clients : \E x \in DOMAIN clients[c].deposits :
    /\ StateOf(clients, c, x) = "Ok"
    /\ AmountOf(clients, c, x) > 0
    /\ clients[c].account.held > 0
    /\ Res(new_dispute(x, c)).ok
    /\ After(new_dispute(x, c))[c].account.held
         = clients[c].account.held + AmountOf(clients, c, x)

\* C15: locked is permanent: an account that is locked is still there and
\* still locked after every step, whatever transaction the step executes.
C15_LockedIsPermanent ==
  [][\A c \in DOMAIN clients :
       clients[c].account.locked =>
         c \in DOMAIN clients' /\ clients'[c].account.locked]_vars

\* a locked account with funds: a Withdrawal of 1 succeeds on it, a
\* Withdrawal of UMax fails, and both leave it locked
C15_Witness ==
  \E c \in DOMAIN clients :
    /\ clients[c].account.locked
    /\ clients[c].account.available > 0
    /\ Res(new_withdrawal(1, c, 1)).ok
    /\ After(new_withdrawal(1, c, 1))[c].account.locked
    /\ ~Res(new_withdrawal(1, c, UMax)).ok
    /\ After(new_withdrawal(1, c, UMax))[c].account.locked

\* C16: a Deposit with a new tx id succeeds on a locked account exactly as on
\* an unlocked one: available increases by the amount, the record
\* (amount, Ok) is added and nothing else changes; it fails only on
\* arithmetic overflow (the amount does not fit the signed type, or
\* available + amount exceeds its maximum), and then with Overflow.
C16_DepositsAlwaysAllowed ==
  \A c \in DOMAIN clients : \A x \in TxIds \ DOMAIN clients[c].deposits :
    \A a \in Amounts :
      LET r == execute(clients, new_deposit(x, c, a))
          acc == clients[c].account
      IN IF a <= IMax /\ acc.available + a <= IMax
         THEN /\ r.res.ok
              /\ r.clients = [clients EXCEPT ![c] =
                   [account |-> [acc EXCEPT !.available = acc.available + a],
                    deposits |-> MapInsert(clients[c].deposits, x,
                                           [amount |-> a, state |-> "Ok"])]]
         ELSE r.res = Err(Overflow) /\ r.clients = clients

\* a locked account takes a Deposit of 1 under a new tx id
C16_Witness ==
  \E c \in DOMAIN clients : \E x \in TxIds \ DOMAIN clients[c].deposits :
    /\ clients[c].account.locked
    /\ Res(new_deposit(x, c, 1)).ok
    /\ After(new_deposit(x, c, 1))[c].account.available
         = clients[c].account.available + 1
    /\ After(new_deposit(x, c, 1))[c].deposits[x] = [amount |-> 1, state |-> "Ok"]

\* the transactions of the ledger.execute calls made so far, in call order
Passed == [i \in 1..Len(calls) |-> calls[i].transaction]

\* C17: replay never aborts: an item of the stream that is a parse error, or
\* whose execute returns an error, is skipped; the transactions passed to
\* execute are at every moment exactly the parsed items consumed so far, in
\* stream order, and the run reaches the end of the stream whatever errors
\* occur on the way.
C17_ReplayNeverAborts ==
  /\ [](Passed = flatten(SubSeq(stream, 1, pos)))
  /\ <>(pos = Len(stream))

\* a run at the end of a stream made of a parse error, a transaction whose
\* execute failed and a transaction whose execute succeeded
C17_Witness ==
  /\ Len(stream) = 3
  /\ pos = 3
  /\ ~is_ok(stream[1])
  /\ Len(calls) = 2
  /\ ~calls[1].ok
  /\ calls[2].ok
  /\ calls[2].transaction = stream[3]

\* C18 as stated: held never underflows: in every reachable state held is at
\* least the amount of every deposit of that client currently in state
\* Disputed, so a Resolve or ChargeBack of such a deposit never fails with
\* Underflow.
C18_Original ==
  \A c \in DOMAIN clients : \A x \in DOMAIN clients[c].deposits :
    StateOf(clients, c, x) = "Disputed" =>
      /\ clients[c].account.held >= AmountOf(clients, c, x)
      /\ Res(new_resolve(x, c)) # Err(Underflow)
      /\ Res(new_charge_back(x, c)) # Err(Underflow)

\* C19 as stated: total never overflows: in every reachable state
\* available + held lies within the signed currency range, so total() does
\* not panic and equals available + held.
C19_Original ==
  \A c \in DOMAIN clients :
    LET acc == clients[c].account IN
    /\ acc.available + acc.held \in IMin..IMax
    /\ total(acc) = Some(acc.available + acc.held)

\* C19 (amended): in every reachable state available + held is at least the
\* signed minimum but may exceed the signed maximum; total() equals
\* available + held exactly when the sum is at most the signed maximum, and
\* panics otherwise.
C19_TotalChecked ==
  \A c \in DOMAIN clients :
    LET acc == clients[c].account
        sum == acc.available + acc.held
    IN /\ sum >= IMin
       /\ sum <= IMax => total(acc) = Some(sum)
       /\ sum > IMax => ~total(acc).some

\* an account with both available and held funds whose sum is representable:
\* its total is that sum
C19_Witness ==
  \E c \in DOMAIN clients :
    /\ clients[c].account.held > 0
    /\ clients[c].account.available > 0
    /\ clients[c].account.available + clients[c].account.held <= IMax
    /\ total(clients[c].account)
         = Some(clients[c].account.available + clients[c].account.held)

NamedClients == {calls[i].transaction.client : i \in 1..Len(calls)}
AcceptedClients ==
  {calls[i].transaction.client : i \in {k \in 1..Len(calls) : calls[k].ok}}

C22_LazyCreationAndPersistence ==
  \A t \in Transactions :
    LET r == execute(clients, t)
        c == t.client
    IN /\ c \in DOMAIN r.clients
       /\ r.clients[c].account.id = c
       /\ DOMAIN clients \subseteq DOMAIN r.clients
       /\ c \notin DOMAIN clients =>
            r.clients[c] =
              IF r.res.ok /\ t.kind = "Deposit"
              THEN [account |-> [EmptyClient(c).account EXCEPT !.available = t.amount],
                    deposits |-> MapInsert(NoDeposits, t.tx,
                                           [amount |-> t.amount, state |-> "Ok"])]
              ELSE EmptyClient(c)

\* a ledger with an account to which a ChargeBack naming a new client is
\* given: it fails, the new client has an empty account and the old account
\* is still there
C22_Witness ==
  \E c \in ClientIds \ DOMAIN clients, b \in DOMAIN clients :
    /\ clients[b].deposits # NoDeposits
    /\ ~Res(new_charge_back(1, c)).ok
    /\ After(new_charge_back(1, c))[c] = EmptyClient(c)
    /\ After(new_charge_back(1, c))[b] = clients[b]

\* C23: a record for (client, tx) is created only by a successful Deposit of
\* that tx for that client; a record that exists is present after every
\* transaction, with its recorded amount unchanged, whatever the transaction
\* is (a Deposit reusing the tx id and a ChargeBack included).
C23_DepositRecordsPermanent ==
  \A t \in Transactions :
    LET r == execute(clients, t) IN
    /\ \A c \in DOMAIN clients : \A x \in DOMAIN clients[c].deposits :
         /\ HasDeposit(r.clients, c, x)
         /\ AmountOf(r.clients, c, x) = AmountOf(clients, c, x)
    /\ \A c \in DOMAIN r.clients : \A x \in DOMAIN r.clients[c].deposits :
         ~HasDeposit(clients, c, x) =>
           /\ r.res.ok
           /\ t.kind = "Deposit" /\ t.client = c /\ t.tx = x
           /\ AmountOf(r.clients, c, x) = t.amount

\* a Disputed deposit of positive amount: its ChargeBack succeeds and a
\* Deposit reusing its tx id with another amount fails, and both leave the
\* record in place with its amount
C23_Witness ==
  \E c \in DOMAIN clients : \E x \in DOMAIN clients[c].deposits :
    /\ StateOf(clients, c, x) = "Disputed"
    /\ AmountOf(clients, c, x) = IMax
    /\ Res(new_charge_back(x, c)).ok
    /\ AmountOf(After(new_charge_back(x, c)), c, x) = IMax
    /\ ~Res(new_deposit(x, c, 1)).ok
    /\ AmountOf(After(new_deposit(x, c, 1)), c, x) = IMax

\* C24 as stated: disputing an Ok deposit of amount a succeeds when
\* available < a, leaving available negative; a following ChargeBack leaves
\* available negative, with held back at its value before the dispute and
\* locked true.
C24_Original ==
  \A c \in DOMAIN clients : \A x \in DOMAIN clients[c].deposits :
    LET acc == clients[c].account
        a == AmountOf(clients, c, x)
        r1 == execute(clients, new_dispute(x, c))
    IN (StateOf(clients, c, x) = "Ok" /\ acc.available < a) =>
         /\ r1.res.ok
         /\ r1.clients[c].account.available = acc.available - a
         /\ r1.clients[c].account.available < 0
         /\ LET r2 == execute(r1.clients, new_charge_back(x, c)) IN
            /\ r2.res.ok
            /\ r2.clients[c].account.available = acc.available - a
            /\ r2.clients[c].account.held = acc.held
            /\ r2.clients[c].account.locked

\* C24 (amended): a Dispute is never rejected for lack of funds: disputing an
\* Ok deposit of amount a when available < a fails only at the limits of the
\* currency range, with Underflow when available - a is below the signed
\* minimum and else with Overflow when held + a exceeds the unsigned maximum;
\* otherwise it succeeds and leaves available negative, and a following
\* ChargeBack succeeds and leaves available at that negative value, with
\* held back at its value before the dispute and locked true.
C24_DisputeWithoutFunds ==
  \A c \in DOMAIN clients : \A x \in DOMAIN clients[c].deposits :
    LET acc == clients[c].account
        a == AmountOf(clients, c, x)
        r1 == execute(clients, new_dispute(x, c))
    IN (StateOf(clients, c, x) = "Ok" /\ acc.available < a) =>
         IF acc.available - a < IMin THEN r1.res = Err(Underflow)
         ELSE IF acc.held + a > UMax THEN r1.res = Err(Overflow)
         ELSE /\ r1.res.ok
              /\ r1.clients[c].account.available = acc.available - a
              /\ r1.clients[c].account.available < 0
              /\ LET r2 == execute(r1.clients, new_charge_back(x, c)) IN
                 /\ r2.res.ok
                 /\ r2.clients[c].account.available = acc.available - a
                 /\ r2.clients[c].account.held = acc.held
                 /\ r2.clients[c].account.locked

\* the account after deposit 1, withdraw 1: the dispute of the deposit
\* succeeds with available -1, and the chargeback ends with available -1,
\* held 0 and locked
C24_Witness ==
  \E c \in DOMAIN clients : \E x \in DOMAIN clients[c].deposits :
    /\ DOMAIN clients[c].deposits = {x}
    /\ StateOf(clients, c, x) = "Ok"
    /\ AmountOf(clients, c, x) = 1
    /\ clients[c].account = [id |-> c, locked |-> FALSE, available |-> 0, held |-> 0]
    /\ withdrawn[c] = 1
    /\ Res(new_dispute(x, c)).ok
    /\ After(new_dispute(x, c))[c].account.available = -1
    /\ execute(After(new_dispute(x, c)), new_charge_back(x, c)).clients[c].account
         = [id |-> c, locked |-> TRUE, available |-> -1, held |-> 0]

\* an accepted Deposit of tx x for client c is among the calls before call i
AcceptedDepositBefore(i, c, x) ==
  \E k \in 1..(i - 1) :
    /\ calls[k].ok
    /\ calls[k].transaction.kind = "Deposit"
    /\ calls[k].transaction.client = c
    /\ calls[k].transaction.tx = x

\* C25: transactions take effect in the order of the stream, one completed
\* before the next starts: a Dispute, Resolve or ChargeBack with no accepted
\* Deposit of its tx before it in the stream fails with DepositNotFound,
\* whatever comes later in the stream; a later Deposit of that tx is not
\* taken for a duplicate, and once accepted it is recorded in state Ok.
C25_StrictStreamOrder ==
  \A i \in 1..Len(calls) :
    LET t == calls[i].transaction IN
    /\ (t.kind \in OnDepositKinds /\ ~AcceptedDepositBefore(i, t.client, t.tx)) =>
         calls[i].res = Err(DepositNotFound(t.tx))
    /\ (t.kind = "Deposit" /\ calls[i].res = Err(DuplicateDeposit(t.tx))) =>
         AcceptedDepositBefore(i, t.client, t.tx)
    /\ (t.kind = "Deposit" /\ calls[i].ok /\ i = Len(calls)) =>
         /\ HasDeposit(clients, t.client, t.tx)
         /\ StateOf(clients, t.client, t.tx) = "Ok"
         /\ AmountOf(clients, t.client, t.tx) = t.amount

\* a stream in which a Dispute, Resolve or ChargeBack comes right before the
\* Deposit of its tx: the first has failed with DepositNotFound, the Deposit
\* has been accepted and its record is in state Ok
C25_Witness ==
  /\ Len(stream) = 2
  /\ pos = 2
  /\ Len(calls) = 2
  /\ calls[1].transaction.kind \in OnDepositKinds
  /\ calls[2].transaction.kind = "Deposit"
  /\ calls[2].transaction.tx = calls[1].transaction.tx
  /\ calls[2].transaction.client = calls[1].transaction.client
  /\ calls[1].res = Err(DepositNotFound(calls[1].transaction.tx))
  /\ calls[2].ok
  /\ StateOf(clients, calls[2].transaction.client, calls[2].transaction.tx) = "Ok"

\* C26: a Deposit with an unused tx id whose amount does not fit the signed
\* currency type, or that would push available above the signed maximum,
\* fails with Overflow without wrapping: available and everything else in
\* the ledger is unchanged (but for the empty account of a new client), no
\* deposit record is created, and a later Deposit of that client with the
\* same tx id is accepted.
C26_DepositOverflow ==
  \A c \in ClientIds : \A x \in TxIds : \A a \in Amounts :
    LET before == WithClient(clients, c)
        r == execute(clients, new_deposit(x, c, a))
    IN (x \notin DOMAIN before[c].deposits
          /\ (a > IMax \/ before[c].account.available + a > IMax)) =>
         /\ r.res = Err(Overflow)
         /\ r.clients = before
         /\ LET r2 == execute(r.clients, new_deposit(x, c, 0)) IN
            /\ r2.res.ok
            /\ r2.clients[c].deposits[x] = [amount |-> 0, state |-> "Ok"]

\* an account with available at the signed maximum refuses a Deposit of 1
\* and one of UMax, both with Overflow, and keeps its available
C26_Witness ==
  \E c \in DOMAIN clients : \E x \in TxIds \ DOMAIN clients[c].deposits :
    /\ clients[c].account.available = IMax
    /\ Res(new_deposit(x, c, 1)) = Err(Overflow)
    /\ Res(new_deposit(x, c, UMax)) = Err(Overflow)
    /\ After(new_deposit(x, c, 1))[c].account.available = IMax
    /\ x \notin DOMAIN After(new_deposit(x, c, 1))[c].deposits

\* C27: a Withdrawal never reads or writes the deposit table: its result does
\* not depend on its tx id, so a Withdrawal whose tx id is that of an
\* existing deposit of the same client succeeds when funds suffice, and
\* held, locked and every deposit record are unchanged by any Withdrawal.
C27_WithdrawalIgnoresDeposits ==
  \A c \in DOMAIN clients : \A a \in Amounts :
    LET r1 == execute(clients, new_withdrawal(1, c, a)) IN
    \A x \in TxIds :
      LET r == execute(clients, new_withdrawal(x, c, a)) IN
      /\ r = r1
      /\ r.clients[c].deposits = clients[c].deposits
      /\ r.clients[c].account.held = clients[c].account.held
      /\ r.clients[c].account.locked = clients[c].account.locked
      /\ (a <= IMax /\ a <= clients[c].account.available) => r.res.ok

\* a Withdrawal of 1 under the tx id of a Disputed deposit of the same
\* client succeeds and leaves the record Disputed
C27_Witness ==
  \E c \in DOMAIN clients : \E x \in DOMAIN clients[c].deposits :
    /\ StateOf(clients, c, x) = "Disputed"
    /\ clients[c].account.available >= 1
    /\ Res(new_withdrawal(x, c, 1)).ok
    /\ After(new_withdrawal(x, c, 1))[c].deposits = clients[c].deposits
    /\ After(new_withdrawal(x, c, 1))[c].account.available
         = clients[c].account.available - 1

\* the tx ids of the records of a deposit table that are in one of the given
\* states, and the sum of the recorded amounts of a set of tx ids
TxInStates(deposits, states) == {x \in DOMAIN deposits : deposits[x].state \in states}

RECURSIVE SumAmounts(_, _)
SumAmounts(deposits, S) ==
  IF S = {} THEN 0
  ELSE LET x == CHOOSE y \in S : TRUE IN
       deposits[x].amount + SumAmounts(deposits, S \ {x})

\* C28 as stated: in every reachable state, each client's held balance equals
\* the sum of the recorded amounts of that client's deposits currently in
\* state Disputed (so held is 0 when no deposit is Disputed).
C28_Original ==
  \A c \in DOMAIN clients :
    clients[c].account.held =
      SumAmounts(clients[c].deposits, TxInStates(clients[c].deposits, {"Disputed"}))

\* C29 as stated: in every reachable state, each client's available + held
\* equals the sum of the amounts of that client's accepted deposits that are
\* not ChargedBack, minus the sum of the amounts of that client's accepted
\* withdrawals.
C29_Original ==
  \A c \in DOMAIN clients :
    clients[c].account.available + clients[c].account.held =
      SumAmounts(clients[c].deposits,
                 TxInStates(clients[c].deposits, {"Ok", "Disputed"}))
        - withdrawn[c]

\* C30: in every reachable state, a client's account is locked if and only
\* if at least one of that client's deposit records is in state ChargedBack.
C30_LockedIffChargedBack ==
  \A c \in DOMAIN clients :
    clients[c].account.locked
      <=> TxInStates(clients[c].deposits, {"ChargedBack"}) # {}

\* a locked account with one deposit ChargedBack and another not, next to
\* an unlocked account with a deposit
C30_Witness ==
  \E c \in DOMAIN clients, b \in DOMAIN clients :
    /\ clients[c].account.locked
    /\ TxInStates(clients[c].deposits, {"ChargedBack"}) # {}
    /\ TxInStates(clients[c].deposits, {"Ok", "Disputed"}) # {}
    /\ ~clients[b].account.locked
    /\ clients[b].deposits # NoDeposits

\* the sum of the amounts of a client's deposits that are Disputed or
\* ChargedBack
DisputedOrChargedBackSum(c) ==
  SumAmounts(clients[c].deposits,
             TxInStates(clients[c].deposits, {"Disputed", "ChargedBack"}))

\* C31: in every reachable state, a client's available is at least minus the
\* sum of the amounts of that client's deposits in state Disputed or
\* ChargedBack; in particular available is at least 0 for a client all of
\* whose deposits are in state Ok.
C31_AvailableLowerBound ==
  \A c \in DOMAIN clients :
    /\ clients[c].account.available >= -DisputedOrChargedBackSum(c)
    /\ TxInStates(clients[c].deposits, {"Disputed", "ChargedBack"}) = {}
         => clients[c].account.available >= 0

\* an account whose available is negative and exactly minus the amount of
\* its one Disputed deposit, the funds having been withdrawn before the
\* dispute
C31_Witness ==
  \E c \in DOMAIN clients :
    /\ clients[c].account.available < 0
    /\ TxInStates(clients[c].deposits, {"Disputed"}) # {}
    /\ clients[c].account.available = -DisputedOrChargedBackSum(c)

\* the ledger cl with the account of client c unlocked and nothing else
\* changed, and an account with its locked flag left out of the comparison
Unlocked(cl, c) == [cl EXCEPT ![c].account.locked = FALSE]
Balances(account) == <<account.available, account.held>>

\* C32: the lock does not touch Dispute, Resolve and ChargeBack: on a locked
\* account each of them, on any deposit id, returns the same result and
\* leaves the same balances and the same deposit table as on the unlocked
\* account with the same balances and deposit table; the locked account
\* stays locked.
C32_LockIgnoredByDisputeResolveChargeBack ==
  \A c \in DOMAIN clients : \A x \in TxIds :
    clients[c].account.locked =>
      \A t \in {new_dispute(x, c), new_resolve(x, c), new_charge_back(x, c)} :
        LET r == execute(clients, t)
            u == execute(Unlocked(clients, c), t)
        IN /\ r.res = u.res
           /\ Balances(r.clients[c].account) = Balances(u.clients[c].account)
           /\ r.clients[c].deposits = u.clients[c].deposits
           /\ r.clients[c].account.locked
           /\ u.clients[c].account.locked <=> (t.kind = "ChargeBack" /\ u.res.ok)

\* a locked account with a charged back deposit and another deposit that is
\* Ok: the Dispute of the other deposit succeeds and holds its amount, and
\* its Resolve fails on the state check
C32_Witness ==
  \E c \in DOMAIN clients : \E x \in DOMAIN clients[c].deposits :
    /\ clients[c].account.locked
    /\ TxInStates(clients[c].deposits, {"ChargedBack"}) \ {x} # {}
    /\ StateOf(clients, c, x) = "Ok"
    /\ Res(new_dispute(x, c)).ok
    /\ After(new_dispute(x, c))[c].account.held
         = clients[c].account.held + AmountOf(clients, c, x)
    /\ ~Res(new_resolve(x, c)).ok

\* C33: in every reachable ledger state the account stored under client key
\* c has id = c, and for every transaction Ledger::execute hands the account
\* operation the account whose id is the transaction's client, so the
\* assert_eq! of the account operation holds and no execute panics.
C33_AccountIdentity ==
  /\ \A c \in DOMAIN clients : clients[c].account.id = c
  /\ \A t \in Transactions :
       LET client_id == get_client_id(t)
           cl1 == or_insert_with(clients, client_id)
       IN /\ assert_eq_id(cl1[client_id].account, t)
          /\ ~IsPanic(execute(clients, t).res)

\* a ledger with the accounts of two clients, built by transactions that
\* went through Ledger::execute, where a further transaction for the second
\* client is accepted and leaves the account under that client's id
C33_Witness ==
  /\ Cardinality(DOMAIN clients) = 2
  /\ \E c \in DOMAIN clients : \E x \in DOMAIN clients[c].deposits :
       /\ c # 1
       /\ clients[c].account.id = c
       /\ Res(new_dispute(x, c)).ok
       /\ After(new_dispute(x, c))[c].account.id = c

\* Ledger::default()
Ledger_default == [c \in {} |-> ClientAccountAndDeposits_new(c)]

\* the ledger a driver ends its loop with when it replays the items s
\* starting from the ledger cl
RECURSIVE replay(_, _, _)
replay(drv, cl, s) ==
  IF s = <<>> THEN cl
  ELSE IF ~is_ok(Head(s)) THEN replay(drv, cl, Tail(s))
  ELSE replay(drv, commit(drv, cl, execute(cl, Head(s))), Tail(s))

\* the accepted sub-stream: the transactions whose execute returned Ok, in
\* stream order
AcceptedSubStream ==
  LET accepted == SelectSeq(calls, LAMBDA call : call.ok) IN
  [i \in 1..Len(accepted) |-> accepted[i].transaction]

\* C34 as stated: for every stream, the final ledger of the library driver
\* equals the final ledger of the library driver replaying the stream with
\* every parse error and every transaction whose execute failed removed.
C34_Original ==
  (driver = "lib" /\ pos = Len(stream)) =>
    clients = replay("lib", Ledger_default, AcceptedSubStream)

\* C34 (amended): for every stream, the final ledger of the library driver
\* holds an account for exactly the clients named by a transaction of the
\* stream; for every client with an accepted transaction the account and
\* the deposit table equal those of the replay of the accepted sub-stream,
\* whose ledger holds exactly these clients; every other client of the
\* final ledger, all of whose transactions failed, has an empty unlocked
\* account and no deposit, which the replay of the accepted sub-stream does
\* not hold.
C34_ReplayOfAcceptedSubStream ==
  (driver = "lib" /\ pos = Len(stream)) =>
    LET sub == replay("lib", Ledger_default, AcceptedSubStream) IN
    /\ DOMAIN sub = AcceptedClients
    /\ DOMAIN clients = NamedClients
    /\ \A c \in DOMAIN sub : clients[c] = sub[c]
    /\ \A c \in DOMAIN clients \ DOMAIN sub : clients[c] = EmptyClient(c)

\* the library driver at the end of a stream with a parse error, a failed
\* transaction of a client with accepted transactions and an accepted
\* transaction: the final ledger is not empty and equals the replay of the
\* accepted sub-stream
C34_Witness ==
  /\ driver = "lib"
  /\ pos = Len(stream)
  /\ \E i \in 1..Len(stream) : ~is_ok(stream[i])
  /\ \E i \in 1..Len(calls) : ~calls[i].ok
  /\ Len(AcceptedSubStream) > 0
  /\ NamedClients = AcceptedClients
  /\ clients = replay("lib", Ledger_default, AcceptedSubStream)

\* the final ledger of each driver for the stream of the run: the ledger of
\* the run for the driver that runs, the replay of the stream for the other
FinalLedger(drv) ==
  IF drv = driver THEN clients ELSE replay(drv, Ledger_default, stream)

\* C35 as stated: for every stream, the in-place driver of the library and
\* the clone-and-commit driver of the cli end with equal ledgers: the same
\* set of client ids with the same accounts and deposit tables.
C35_Original ==
  pos = Len(stream) => FinalLedger("lib") = FinalLedger("cli")

\* C35 (amended): for every stream, the two drivers end with the same
\* account and deposit table for every client with an accepted
\* transaction; the ledger of the cli holds exactly
\* these clients, and the ledger of the library holds in addition an empty
\* unlocked account without deposits for every client named only by
\* transactions whose execute failed.
C35_DriverEquivalence ==
  pos = Len(stream) =>
    LET lib == FinalLedger("lib")
        cli == FinalLedger("cli")
    IN /\ DOMAIN cli = AcceptedClients
       /\ DOMAIN lib = NamedClients
       /\ \A c \in DOMAIN cli : lib[c] = cli[c]
       /\ \A c \in DOMAIN lib \ DOMAIN cli : lib[c] = EmptyClient(c)

\* the cli driver at the end of a stream with a failed and an accepted
\* transaction, every named client having an accepted one: the library
\* driver ends with the same, non-empty ledger
C35_Witness ==
  /\ driver = "cli"
  /\ pos = Len(stream)
  /\ \E i \in 1..Len(calls) : ~calls[i].ok
  /\ \E i \in 1..Len(calls) : calls[i].ok
  /\ clients # Ledger_default
  /\ FinalLedger("lib") = clients

\* C36 as stated: for every finite stream, under fair scheduling of the
\* driver loop, the run eventually reaches the point where the snapshot of
\* the final ledger is written.
C36_Original == <>(pc = "written")

\* a loop step that passed a transaction to ledger.execute and got an error
FailedCall == Len(calls') = Len(calls) + 1 /\ ~calls'[Len(calls')].ok

\* C36 (amended): for every finite stream, under fair scheduling of the
\* driver loop, the loop ends with every item of the stream consumed, each
\* parsed item passed to execute once and each parse error dropped; a
\* transaction whose execute failed leaves the ledger as it was, but for the
\* empty account the library driver keeps for a new client; and the run
\* then stays at the snapshot, which is written unless the driver is the
\* library's and available + held of some account exceeds the signed
\* maximum, in which case total() panics while the snapshot is written.
C36_ReplayTerminates ==
  /\ [][FailedCall =>
          clients' = IF driver = "lib"
                     THEN WithClient(clients, calls'[Len(calls')].transaction.client)
                     ELSE clients]_vars
  /\ <>[](/\ pos = Len(stream)
          /\ Len(calls) = Len(flatten(stream))
          /\ pc \in {"written", "panicked"}
          /\ pc = "panicked"
               <=> (driver = "lib"
                    /\ \E c \in DOMAIN clients : ~total(clients[c].account).some))

\* the library driver after a stream of a parse error, a failed and an
\* accepted transaction: all items are consumed and the snapshot is written
C36_Witness ==
  /\ driver = "lib"
  /\ pc = "written"
  /\ Len(stream) = MaxStream
  /\ pos = Len(stream)
  /\ \E i \in 1..Len(stream) : ~is_ok(stream[i])
  /\ \E i \in 1..Len(calls) : ~calls[i].ok
  /\ \E i \in 1..Len(calls) : calls[i].ok
  /\ clients # Ledger_default

====
